---------------------------- MODULE Spec2Model ----------------------------
(***************************************************************************)
(* Model of the ecommerce data exercise:                                   *)
(*   - generate-data.js   : the entity generator and referential linker    *)
(*                          (specification SpecGen);                       *)
(*   - create-database.js : the schema manager and bulk loader, kept in    *)
(*                          src/unnamed/part_000 (specification Spec);     *)
(*   - loadCsv / toInteger / toFloat of the loader taken alone on one      *)
(*     file with arbitrary raw text (specification SpecParse);             *)
(*   - main.js            : the script that runs the three phases one      *)
(*                          after another (specification SpecMain).        *)
(*                                                                         *)
(* Money is held in whole cents.  A JavaScript number that stands for an   *)
(* amount is Num(c); the text produced by toFixed(2) is ToFixed2(c), which *)
(* holds the digits before and after the decimal point.  The sums of the   *)
(* generator stay far below 2^53 cents, so the double arithmetic of the    *)
(* source agrees with the arithmetic on cents after toFixed(2).            *)
(***************************************************************************)
EXTENDS Integers, Sequences, FiniteSets, TLC

VARIABLES
    \* ---- generate-data.js -------------------------------------------
    customerCount, productCount, orderCount, orderItemCount,
    customers, products, orders, orderItems, payments,
    safeTargetCount, nextOrderItemId, orderIdx, genPc, genError,
    \* ---- create-database.js (src/unnamed/part_000) -------------------
    pc, db, fkOn, tables, ddlIdx, csv, allCsv, committed, txn, txnRows,
    tblIdx, rowIdx, tblState, caught, error, closeError, exitCode,
    \* ---- one loadCsv call taken alone --------------------------------
    pFile, pInput, pRows, pStatus, pError,
    \* ---- main.js -----------------------------------------------------
    mainPc, scriptIdx, child, console

genVars == <<customerCount, productCount, orderCount, orderItemCount,
             customers, products, orders, orderItems, payments,
             safeTargetCount, nextOrderItemId, orderIdx, genPc, genError>>

loadVars == <<pc, db, fkOn, tables, ddlIdx, csv, allCsv, committed, txn, txnRows,
              tblIdx, rowIdx, tblState, caught, error, closeError, exitCode>>

parseVars == <<pFile, pInput, pRows, pStatus, pError>>

mainVars == <<mainPc, scriptIdx, child, console>>

vars == <<genVars, loadVars, parseVars, mainVars>>

-----------------------------------------------------------------------------
(* Bounds of the model *)

\* largest requested number of customers
MaxCustomers == 2
\* largest requested number of products
MaxProducts == 2
\* largest requested number of orders
MaxOrders == 2
\* largest requested number of order items
MaxItems == 3
\* most rows of a CSV file read by the loader
MaxRows == 2
\* most rows of the file given to the single loadCsv call
MaxParseRows == 1

\* faker.number.int({ min: 1, max: 5 }) of addOrderItem
QuantityMin == 1
QuantityMax == 5
\* faker.commerce.price({ min: 10, max: 500, dec: 2 }), in cents
PriceMinCents == 1000
PriceMaxCents == 50000

\* the price the random source is made to return for the i-th product, and
\* the quantities it is made to return
PriceOf(i) == IF i % 2 = 1 THEN PriceMinCents + 999 ELSE PriceMaxCents
Quantities == {QuantityMin, QuantityMax}

\* requested counts: negative, zero and positive
Counts(max) == {0 - 1} \cup (0 .. max)

-----------------------------------------------------------------------------
(* Numbers and their two-decimal text *)

Max(a, b) == IF a >= b THEN a ELSE b

\* a JavaScript number holding an amount of c cents
Num(c) == [type |-> "number", cents |-> c]

\* Number.prototype.toFixed(2): the text "units.frac" of an amount
ToFixed2(n) == [type |-> "string", units |-> n.cents \div 100, frac |-> n.cents % 100]

\* Number(text) of a two-decimal text
NumberOf(t) == Num(t.units * 100 + t.frac)

\* Array.from({ length: count }): ToLength clamps a negative length to 0
ArrayLength(count) == IF count > 0 THEN count ELSE 0

-----------------------------------------------------------------------------
(* generate-data.js *)

\* a generator whose customer ids start at 0
CustomerIdRange_FromZero(count) == 0 .. count

\* faker.number.int({ min: 1, max: customerCount }): the values it returns;
\* the call throws when max < min, which is when this set is empty
CustomerIdRange(count) == 1 .. count

\* a generator that takes the requested count as it is
SafeTargetCount_NoMax(targetCount, orderList) == targetCount

\* a generator that stops after the guarantee pass
SafeTargetCount_OrdersOnly(targetCount, orderList) == Len(orderList)

\* Math.max(targetCount, orders.length)
SafeTargetCount(targetCount, orderList) == Max(targetCount, Len(orderList))

\* a generator that forgets the quantity
Accumulate_NoQuantity(total, quantity, unitPrice) == Num(total.cents + unitPrice.cents)

\* order.total_amount += quantity * unitPrice
Accumulate(total, quantity, unitPrice) == Num(total.cents + quantity * unitPrice.cents)

\* the order item built by addOrderItem for `order`, `product`, `quantity`
NewOrderItem(id, order, product, quantity) ==
    [order_item_id |-> id,
     order_id      |-> order.order_id,
     product_id    |-> product.product_id,
     quantity      |-> quantity,
     unit_price    |-> ToFixed2(NumberOf(product.price))]

\* the state after construction of a run: the requested counts are the inputs
GenInit ==
    /\ customerCount \in Counts(MaxCustomers)
    /\ productCount \in Counts(MaxProducts)
    /\ orderCount \in Counts(MaxOrders)
    /\ orderItemCount \in Counts(MaxItems)
    /\ customers = <<>>
    /\ products = <<>>
    /\ orders = <<>>
    /\ orderItems = <<>>
    /\ payments = <<>>
    /\ safeTargetCount = 0
    /\ nextOrderItemId = 1
    /\ orderIdx = 1
    /\ genPc = "customers"
    /\ genError = "none"

\* the generator at rest, for the specifications of the loader
GenIdle ==
    /\ customerCount = 0
    /\ productCount = 0
    /\ orderCount = 0
    /\ orderItemCount = 0
    /\ customers = <<>>
    /\ products = <<>>
    /\ orders = <<>>
    /\ orderItems = <<>>
    /\ payments = <<>>
    /\ safeTargetCount = 0
    /\ nextOrderItemId = 1
    /\ orderIdx = 1
    /\ genPc = "idle"
    /\ genError = "none"

\* an exception leaves generateAndSaveData; main logs it and sets exitCode
GenThrow(where) ==
    /\ genPc' = "failed"
    /\ genError' = where

generateCustomers ==
    /\ genPc = "customers"
    /\ customers' = [i \in 1 .. ArrayLength(customerCount) |-> [customer_id |-> i]]
    /\ genPc' = "products"
    /\ UNCHANGED <<customerCount, productCount, orderCount, orderItemCount,
                   products, orders, orderItems, payments,
                   safeTargetCount, nextOrderItemId, orderIdx, genError>>

generateProducts ==
    /\ genPc = "products"
    /\ products' = [i \in 1 .. ArrayLength(productCount) |->
                        [product_id |-> i, price |-> ToFixed2(Num(PriceOf(i)))]]
    /\ genPc' = "orders"
    /\ UNCHANGED <<customerCount, productCount, orderCount, orderItemCount,
                   customers, orders, orderItems, payments,
                   safeTargetCount, nextOrderItemId, orderIdx, genError>>

generateOrders ==
    /\ genPc = "orders"
    /\ IF ArrayLength(orderCount) >= 1 /\ CustomerIdRange(customerCount) = {}
       THEN /\ GenThrow("generateOrders")
            /\ UNCHANGED orders
       ELSE /\ \E cust \in [1 .. ArrayLength(orderCount) -> CustomerIdRange(customerCount)] :
                  orders' = [i \in 1 .. ArrayLength(orderCount) |->
                                [order_id |-> i, customer_id |-> cust[i],
                                 total_amount |-> Num(0)]]
            /\ genPc' = "items"
            /\ UNCHANGED genError
    /\ UNCHANGED <<customerCount, productCount, orderCount, orderItemCount,
                   customers, products, orderItems, payments,
                   safeTargetCount, nextOrderItemId, orderIdx>>

\* lines 94-96: the locals of generateOrderItems
generateOrderItems ==
    /\ genPc = "items"
    /\ orderItems' = <<>>
    /\ safeTargetCount' = SafeTargetCount(orderItemCount, orders)
    /\ nextOrderItemId' = 1
    /\ orderIdx' = 1
    /\ genPc' = "first_pass"
    /\ UNCHANGED <<customerCount, productCount, orderCount, orderItemCount,
                   customers, products, orders, payments, genError>>

\* addOrderItem(orders[i]): throws when faker.helpers.arrayElement is given
\* an empty product list
addOrderItem(i) ==
    IF products = <<>>
    THEN /\ GenThrow("generateOrderItems")
         /\ UNCHANGED <<orderItems, orders, nextOrderItemId>>
    ELSE /\ \E p \in 1 .. Len(products), quantity \in Quantities :
               /\ orderItems' = Append(orderItems,
                      NewOrderItem(nextOrderItemId, orders[i], products[p], quantity))
               /\ orders' = [orders EXCEPT ![i].total_amount =
                      Accumulate(@, quantity, NumberOf(products[p].price))]
         /\ nextOrderItemId' = nextOrderItemId + 1
         /\ UNCHANGED <<genError, genPc>>

\* lines 115-120: one iteration of the guarantee pass
FirstPassStep ==
    /\ genPc = "first_pass"
    /\ orderIdx <= Len(orders)
    /\ IF Len(orderItems) >= safeTargetCount
       THEN /\ genPc' = "top_up"
            /\ UNCHANGED <<orderItems, orders, nextOrderItemId, genError, orderIdx>>
       ELSE /\ addOrderItem(orderIdx)
            /\ orderIdx' = orderIdx + 1
    /\ UNCHANGED <<customerCount, productCount, orderCount, orderItemCount,
                   customers, products, payments, safeTargetCount>>

\* the guarantee pass has visited every order
FirstPassEnd ==
    /\ genPc = "first_pass"
    /\ orderIdx > Len(orders)
    /\ genPc' = "top_up"
    /\ UNCHANGED <<customerCount, productCount, orderCount, orderItemCount,
                   customers, products, orders, orderItems, payments,
                   safeTargetCount, nextOrderItemId, orderIdx, genError>>

\* lines 122-125: one iteration of the top-up pass; arrayElement throws on
\* an empty order list
TopUpStep ==
    /\ genPc = "top_up"
    /\ Len(orderItems) < safeTargetCount
    /\ IF orders = <<>>
       THEN /\ GenThrow("generateOrderItems")
            /\ UNCHANGED <<orderItems, orders, nextOrderItemId>>
       ELSE \E i \in 1 .. Len(orders) : addOrderItem(i)
    /\ UNCHANGED <<customerCount, productCount, orderCount, orderItemCount,
                   customers, products, payments, safeTargetCount, orderIdx>>

\* lines 127-131: totals become two-decimal text, the items are returned
FinalizeTotals ==
    /\ genPc = "top_up"
    /\ Len(orderItems) >= safeTargetCount
    /\ orders' = [i \in 1 .. Len(orders) |->
                     [orders[i] EXCEPT !.total_amount = ToFixed2(@)]]
    /\ genPc' = "payments"
    /\ UNCHANGED <<customerCount, productCount, orderCount, orderItemCount,
                   customers, products, orderItems, payments,
                   safeTargetCount, nextOrderItemId, orderIdx, genError>>

\* one payment per order, in order; status and dates take no part here
generatePayments ==
    /\ genPc = "payments"
    /\ payments' = [i \in 1 .. Len(orders) |->
                       [payment_id |-> i, order_id |-> orders[i].order_id]]
    /\ genPc' = "done"
    /\ UNCHANGED <<customerCount, productCount, orderCount, orderItemCount,
                   customers, products, orders, orderItems,
                   safeTargetCount, nextOrderItemId, orderIdx, genError>>

-----------------------------------------------------------------------------
(* Text and the numeric conversions of create-database.js                  *)
(* A text is a sequence of one-character strings.  The alphabet of the     *)
(* model holds digits, letters other than e and I, the decimal point, the  *)
(* signs and the blank, so exponents and "Infinity" do not arise.          *)

Digits == {"0", "1", "2", "3", "4", "5", "6", "7", "8", "9"}

DigitVal(c) ==
    CASE c = "0" -> 0 [] c = "1" -> 1 [] c = "2" -> 2 [] c = "3" -> 3 [] c = "4" -> 4
      [] c = "5" -> 5 [] c = "6" -> 6 [] c = "7" -> 7 [] c = "8" -> 8 [] c = "9" -> 9

RECURSIVE StripLeading(_)
StripLeading(s) ==
    IF s # <<>> /\ Head(s) = " " THEN StripLeading(Tail(s)) ELSE s

RECURSIVE StripTrailing(_)
StripTrailing(s) ==
    IF s # <<>> /\ s[Len(s)] = " " THEN StripTrailing(SubSeq(s, 1, Len(s) - 1)) ELSE s

\* String.prototype.trim, the mapValues of loadCsv
Trim(s) == StripTrailing(StripLeading(s))

\* the longest prefix of s made of digits
RECURSIVE DigitPrefix(_)
DigitPrefix(s) ==
    IF s # <<>> /\ Head(s) \in Digits THEN <<Head(s)>> \o DigitPrefix(Tail(s)) ELSE <<>>

\* the number a sequence of digits writes
RECURSIVE DigitsValue(_)
DigitsValue(ds) ==
    IF ds = <<>> THEN 0 ELSE 10 * DigitsValue(SubSeq(ds, 1, Len(ds) - 1)) + DigitVal(ds[Len(ds)])

Unsigned(s) == IF s # <<>> /\ Head(s) \in {"+", "-"} THEN Tail(s) ELSE s
SignOf(s) == IF s # <<>> /\ Head(s) = "-" THEN 0 - 1 ELSE 1

NaN == [nan |-> TRUE]

\* Number.parseInt(value, 10): leading blanks are skipped, a sign is read,
\* then the longest run of digits; what follows it is ignored
ParseInt(s) ==
    LET t  == StripLeading(s)
        ds == DigitPrefix(Unsigned(t))
    IN  IF ds = <<>> THEN NaN
        ELSE [nan |-> FALSE, value |-> SignOf(t) * DigitsValue(ds)]

\* Number.parseFloat(value): the longest prefix that is a decimal literal;
\* the value is mant / 10^scale
ParseFloat(s) ==
    LET t    == StripLeading(s)
        u    == Unsigned(t)
        int  == DigitPrefix(u)
        rest == SubSeq(u, Len(int) + 1, Len(u))
        frac == IF rest # <<>> /\ Head(rest) = "." THEN DigitPrefix(Tail(rest)) ELSE <<>>
    IN  IF int = <<>> /\ frac = <<>> THEN NaN
        ELSE [nan |-> FALSE,
              value |-> [mant |-> SignOf(t) * DigitsValue(int \o frac), scale |-> Len(frac)]]

\* a rejected conversion: the Error thrown by toInteger or toFloat
Invalid(kind, fieldName, value) ==
    [thrown |-> TRUE, kind |-> kind, field |-> fieldName, raw |-> value]

toInteger(value, fieldName) ==
    LET result == ParseInt(value)
    IN  IF result.nan THEN Invalid("integer", fieldName, value)
        ELSE [thrown |-> FALSE, value |-> result.value]

toFloat(value, fieldName) ==
    LET result == ParseFloat(value)
    IN  IF result.nan THEN Invalid("numeric", fieldName, value)
        ELSE [thrown |-> FALSE, value |-> result.value]

\* the five tables, in the order main loads them
TableOrder == <<"customers", "products", "orders", "order_items", "payments">>
Tables == {TableOrder[i] : i \in 1 .. Len(TableOrder)}

\* the numeric columns of each file with their converter, in header order;
\* the text columns pass through unchanged and are left out of the rows
Converters(t) ==
    CASE t = "customers"   -> <<<<"customer_id", "int">>>>
      [] t = "products"    -> <<<<"product_id", "int">>, <<"price", "float">>,
                               <<"stock_quantity", "int">>>>
      [] t = "orders"      -> <<<<"order_id", "int">>, <<"customer_id", "int">>,
                               <<"total_amount", "float">>>>
      [] t = "order_items" -> <<<<"order_item_id", "int">>, <<"order_id", "int">>,
                               <<"product_id", "int">>, <<"quantity", "int">>,
                               <<"unit_price", "float">>>>
      [] t = "payments"    -> <<<<"payment_id", "int">>, <<"order_id", "int">>>>

Columns(t) == {Converters(t)[i][1] : i \in 1 .. Len(Converters(t))}

\* converter(value) for column i of table t, on the trimmed value
Converted(t, rawRow, i) ==
    LET col == Converters(t)[i][1]
    IN  IF Converters(t)[i][2] = "int"
        THEN toInteger(Trim(rawRow[col]), col)
        ELSE toFloat(Trim(rawRow[col]), col)

\* the 'data' handler of loadCsv on one raw row: the converted row, or the
\* Error given to stream.destroy, which names the file and carries the
\* message of the first conversion that threw
ConvertRow(t, rawRow) ==
    LET n   == Len(Converters(t))
        bad == {i \in 1 .. n : Converted(t, rawRow, i).thrown}
    IN  IF bad = {}
        THEN [ok |-> TRUE,
              row |-> [col \in Columns(t) |->
                         Converted(t, rawRow,
                             CHOOSE i \in 1 .. n : Converters(t)[i][1] = col).value]]
        ELSE LET first == CHOOSE i \in bad : \A j \in bad : i <= j
             IN  [ok |-> FALSE,
                  error |-> [stmt  |-> "loadCsv",
                             file  |-> t,
                             kind  |-> Converted(t, rawRow, first).kind,
                             field |-> Converted(t, rawRow, first).field,
                             raw   |-> Converted(t, rawRow, first).raw]]

\* no error has been caught, logged or reported
NoError == [stmt |-> "none"]

\* the states of the promise returned by Promise.all
Pending == [state |-> "pending"]
Fulfilled == [state |-> "fulfilled"]
Rejected(reason) == [state |-> "rejected", reason |-> reason]

\* the loader at rest, for the specifications of the other programs
LoadIdle ==
    /\ pc = "idle"
    /\ db = "none"
    /\ fkOn = FALSE
    /\ tables = {}
    /\ ddlIdx = 1
    /\ csv = <<>>
    /\ allCsv = Pending
    /\ committed = <<>>
    /\ txn = "none"
    /\ txnRows = <<>>
    /\ tblIdx = 1
    /\ rowIdx = 1
    /\ tblState = <<>>
    /\ caught = NoError
    /\ error = NoError
    /\ closeError = NoError
    /\ exitCode = 0

\* the single loadCsv call at rest
ParseIdle ==
    /\ pFile = "none"
    /\ pInput = <<>>
    /\ pRows = <<>>
    /\ pStatus = "idle"
    /\ pError = NoError

\* main.js at rest
MainIdle ==
    /\ mainPc = "idle"
    /\ scriptIdx = 1
    /\ child = <<>>
    /\ console = <<>>

-----------------------------------------------------------------------------
(* create-database.js: the store *)

\* raw field values of the files the loader reads
TextOne == <<"1">>
TextTwo == <<"2">>
TextBad == <<"x">>
TextPrice == <<"9", ".", "5">>

\* the raw rows a file of table t may hold
RawRows(t) ==
    CASE t = "customers" ->
            {[customer_id |-> id] : id \in {TextOne, TextTwo, TextBad}}
      [] t = "products" ->
            {[product_id |-> id, price |-> TextPrice, stock_quantity |-> TextOne] :
                id \in {TextOne, TextBad}}
      [] t = "orders" ->
            {[order_id |-> id, customer_id |-> TextOne, total_amount |-> TextPrice] :
                id \in {TextOne, TextBad}}
      [] t = "order_items" ->
            {[order_item_id |-> id, order_id |-> TextOne, product_id |-> p,
              quantity |-> TextOne, unit_price |-> TextPrice] :
                id \in {TextOne, TextBad}, p \in {TextOne, TextTwo}}
      [] t = "payments" ->
            {[payment_id |-> id, order_id |-> TextOne] : id \in {TextOne, TextBad}}

\* the files of table t: up to MaxRows rows
Files(t) == UNION {[1 .. n -> RawRows(t)] : n \in 0 .. MaxRows}

\* loadCsv on a file: the rows converted so far, until a row fails
RECURSIVE LoadCsvResult(_, _, _)
LoadCsvResult(t, file, rows) ==
    IF file = <<>> THEN [ok |-> TRUE, rows |-> rows]
    ELSE LET r == ConvertRow(t, Head(file))
         IN  IF r.ok THEN LoadCsvResult(t, Tail(file), Append(rows, r.row))
             ELSE [ok |-> FALSE, error |-> r.error]

\* what the promise of loadCsv(fileName, converters) settles to
loadCsv(t, file) == LoadCsvResult(t, file, <<>>)

\* the outcomes of loadCsv for table t over all its files
Settlements == [t \in Tables |-> {loadCsv(t, file) : file \in Files(t)}]

\* PRIMARY KEY of each CREATE TABLE statement
PrimaryKey(t) ==
    CASE t = "customers" -> "customer_id"
      [] t = "products" -> "product_id"
      [] t = "orders" -> "order_id"
      [] t = "order_items" -> "order_item_id"
      [] t = "payments" -> "payment_id"

\* FOREIGN KEY clauses of each CREATE TABLE statement: <<column, parent table>>
ForeignKeys(t) ==
    CASE t = "orders" -> {<<"customer_id", "customers">>}
      [] t = "order_items" -> {<<"order_id", "orders">>, <<"product_id", "products">>}
      [] t = "payments" -> {<<"order_id", "orders">>}
      [] OTHER -> {}

\* the statements of createTables, in the order they are run
DdlStatements ==
    <<<<"DROP", "payments">>, <<"DROP", "order_items">>, <<"DROP", "orders">>,
      <<"DROP", "products">>, <<"DROP", "customers">>,
      <<"CREATE", "customers">>, <<"CREATE", "products">>, <<"CREATE", "orders">>,
      <<"CREATE", "order_items">>, <<"CREATE", "payments">>>>

\* the rows of table t the connection sees: committed ones and those of its
\* open transaction
Visible(t) == committed[t] \o (IF txn = t THEN txnRows ELSE <<>>)

KeysOf(t) == {Visible(t)[i][PrimaryKey(t)] : i \in 1 .. Len(Visible(t))}

\* whether the store's constraints accept `row` into table t
ConstraintsHold(t, row) ==
    /\ t \in tables
    /\ row[PrimaryKey(t)] \notin KeysOf(t)
    /\ fkOn => \A fk \in ForeignKeys(t) : row[fk[1]] \in KeysOf(fk[2])

\* the constraint of table t the store reports for a row it rejects: the
\* key is checked when the row is written, the references when the
\* statement ends
Violation(t, row) ==
    IF row[PrimaryKey(t)] \in KeysOf(t) THEN "unique" ELSE "foreign_key"

\* an error of the store on statement `stmt` for table t, row k
StoreError(stmt, t, k, cause) == [stmt |-> stmt, table |-> t, row |-> k, cause |-> cause]

\* lines 37-46, 185-188 and 286-288: the error object that runQuery rejects
\* with is the one the driver built, insertData throws it again unchanged
\* and main logs it unchanged. The driver's object holds a result code and
\* the store's message; the message names the table and the column of a key
\* that collided, names nothing for a missing reference, and never holds the
\* row or its position in the file
ErrorObject(e) ==
    CASE e.stmt = "none" -> [code |-> "none"]
      [] e.stmt = "loadCsv" ->
            [code |-> "Error", file |-> e.file, field |-> e.field, raw |-> e.raw]
      [] e.cause = "unique" ->
            [code |-> "SQLITE_CONSTRAINT", constraint |-> "UNIQUE",
             table |-> e.table, column |-> PrimaryKey(e.table)]
      [] e.cause = "foreign_key" ->
            [code |-> "SQLITE_CONSTRAINT", constraint |-> "FOREIGN KEY"]
      [] OTHER -> [code |-> "SQLITE_ERROR"]

\* the first statement of insertData's catch clause
CatchTarget_Commit == "commit"
CatchTarget == "rollback"

\* a load order that puts the children first
TableOrder_ChildrenFirst ==
    <<"order_items", "payments", "orders", "customers", "products">>

\* the tables in the order of the insertData calls of main
InsertOrder == TableOrder

CurrentTable == InsertOrder[tblIdx]

-----------------------------------------------------------------------------
(* create-database.js: main *)

LoadInit ==
    /\ pc = "prepare"
    /\ db = "none"
    /\ fkOn = FALSE
    /\ tables = {}
    /\ ddlIdx = 1
    /\ csv = [t \in Tables |-> [status |-> "unstarted", rows |-> <<>>]]
    /\ allCsv = Pending
    /\ committed = [t \in Tables |-> <<>>]
    /\ txn = "none"
    /\ txnRows = <<>>
    /\ tblIdx = 1
    /\ rowIdx = 1
    /\ tblState = [t \in Tables |-> "pending"]
    /\ caught = NoError
    /\ error = NoError
    /\ closeError = NoError
    /\ exitCode = 0

\* lines 286-297: the catch clause logs the error and sets the exit code; the
\* finally clause asks for the close when a database was opened
Fail(e) ==
    /\ error' = e
    /\ exitCode' = 1
    /\ IF db = "open"
       THEN pc' = "closing" /\ db' = "closing"
       ELSE pc' = "done" /\ UNCHANGED db

\* line 285 and the finally clause on the normal path
Finish ==
    /\ pc' = "closing"
    /\ db' = "closing"
    /\ UNCHANGED <<error, exitCode>>

\* lines 196-197: mkdir and rm
Prepare ==
    /\ pc = "prepare"
    /\ \/ pc' = "open" /\ UNCHANGED <<db, error, exitCode>>
       \/ Fail(StoreError("PREPARE", "none", 0, "io"))
    /\ UNCHANGED <<fkOn, tables, ddlIdx, csv, allCsv, committed, txn, txnRows,
                   tblIdx, rowIdx, tblState, caught, closeError>>

\* line 199: openDatabase
OpenDatabase ==
    /\ pc = "open"
    /\ \/ pc' = "pragma" /\ db' = "open" /\ UNCHANGED <<error, exitCode>>
       \/ Fail(StoreError("OPEN", "none", 0, "io"))
    /\ UNCHANGED <<fkOn, tables, ddlIdx, csv, allCsv, committed, txn, txnRows,
                   tblIdx, rowIdx, tblState, caught, closeError>>

\* line 200: execQuery(db, 'PRAGMA foreign_keys = ON;'). The store reports an
\* error, or turns enforcement on, or (a build without foreign-key support)
\* accepts the statement and does nothing; its answer is not read back
EnableForeignKeys ==
    /\ pc = "pragma"
    /\ \/ pc' = "create" /\ fkOn' = TRUE /\ UNCHANGED <<db, error, exitCode>>
       \/ pc' = "create" /\ fkOn' = FALSE /\ UNCHANGED <<db, error, exitCode>>
       \/ Fail(StoreError("PRAGMA", "none", 0, "io")) /\ UNCHANGED fkOn
    /\ UNCHANGED <<tables, ddlIdx, csv, allCsv, committed, txn, txnRows,
                   tblIdx, rowIdx, tblState, caught, closeError>>

\* lines 159-165 and 206-242: one statement of createTables; after the last
\* one main starts the five loadCsv calls and awaits Promise.all
CreateTables ==
    /\ pc = "create"
    /\ LET stmt == DdlStatements[ddlIdx]
       IN  \/ /\ tables' = IF stmt[1] = "DROP" THEN tables \ {stmt[2]}
                           ELSE tables \cup {stmt[2]}
              /\ ddlIdx' = ddlIdx + 1
              /\ IF ddlIdx = Len(DdlStatements)
                 THEN /\ pc' = "await_csv"
                      /\ csv' = [t \in Tables |-> [status |-> "reading", rows |-> <<>>]]
                 ELSE UNCHANGED <<pc, csv>>
              /\ UNCHANGED <<db, error, exitCode>>
           \/ /\ Fail(StoreError(stmt[1], stmt[2], 0, "io"))
              /\ UNCHANGED <<tables, ddlIdx, csv>>
    /\ UNCHANGED <<fkOn, allCsv, committed, txn, txnRows,
                   tblIdx, rowIdx, tblState, caught, closeError>>

\* lines 59-91: the promise of loadCsv(t) settles. The rows array is local
\* to the promise until it resolves, so the 'data' events of the file and its
\* 'end' event, or the conversion that throws, the destroy of the stream and
\* its 'error' event, are taken as one step; the file holds any rows.
\* Promise.all is fulfilled when the last of the five resolves and rejects
\* with the first rejection
CsvSettle(t) ==
    /\ pc # "crashed"
    /\ csv[t].status = "reading"
    /\ \E r \in Settlements[t] :
          IF r.ok
          THEN /\ csv' = [csv EXCEPT ![t] = [status |-> "resolved", rows |-> r.rows]]
               /\ allCsv' = IF allCsv = Pending
                               /\ \A u \in Tables \ {t} : csv[u].status = "resolved"
                            THEN Fulfilled ELSE allCsv
          ELSE /\ csv' = [csv EXCEPT ![t] = [status |-> "rejected", rows |-> <<>>]]
               /\ allCsv' = IF allCsv = Pending THEN Rejected(r.error) ELSE allCsv
    /\ UNCHANGED <<pc, db, fkOn, tables, ddlIdx, committed, txn, txnRows,
                   tblIdx, rowIdx, tblState, caught, error, closeError, exitCode>>

\* lines 64-71: the file stream made by createReadStream fails (the file is
\* missing or unreadable). The handlers of loadCsv are on the stream returned
\* by pipe, and pipe does not forward errors, so the 'error' event of the
\* file stream has no listener: it is thrown as an uncaught exception and
\* the process ends at once with exit code 1
CsvReadError(t) ==
    /\ pc # "crashed"
    /\ csv[t].status = "reading"
    /\ pc' = "crashed"
    /\ exitCode' = 1
    /\ UNCHANGED <<db, fkOn, tables, ddlIdx, csv, allCsv, committed, txn, txnRows,
                   tblIdx, rowIdx, tblState, caught, error, closeError>>

\* an await that goes on to the inserts as soon as the five promises have
\* settled, whatever they settled to
AwaitCsv_AllSettled ==
    /\ pc = "await_csv"
    /\ \A t \in Tables : csv[t].status \in {"resolved", "rejected"}
    /\ pc' = "insert"
    /\ tblIdx' = 1
    /\ UNCHANGED <<db, error, exitCode>>
    /\ UNCHANGED <<fkOn, tables, ddlIdx, csv, allCsv, committed, txn, txnRows,
                   rowIdx, tblState, caught, closeError>>

\* line 207: the await on Promise.all resumes
AwaitCsv ==
    /\ pc = "await_csv"
    /\ allCsv # Pending
    /\ IF allCsv = Fulfilled
       THEN /\ pc' = "insert"
            /\ tblIdx' = 1
            /\ UNCHANGED <<db, error, exitCode>>
       ELSE /\ Fail(allCsv.reason)
            /\ UNCHANGED tblIdx
    /\ UNCHANGED <<fkOn, tables, ddlIdx, csv, allCsv, committed, txn, txnRows,
                   rowIdx, tblState, caught, closeError>>

\* main goes on to the next insertData call, or to the end of the try block
NextTable ==
    IF tblIdx = Len(InsertOrder)
    THEN Finish /\ UNCHANGED tblIdx
    ELSE /\ pc' = "insert"
         /\ tblIdx' = tblIdx + 1
         /\ UNCHANGED <<db, error, exitCode>>

\* lines 168-177: insertData is called for the current table; a table
\* without rows is skipped, otherwise BEGIN TRANSACTION is sent
InsertDataStart ==
    /\ pc = "insert"
    /\ IF csv[CurrentTable].rows = <<>>
       THEN /\ tblState' = [tblState EXCEPT ![CurrentTable] = "skipped"]
            /\ NextTable
       ELSE /\ pc' = "begin"
            /\ UNCHANGED <<tblState, tblIdx, db, error, exitCode>>
    /\ UNCHANGED <<fkOn, tables, ddlIdx, csv, allCsv, committed, txn, txnRows,
                   rowIdx, caught, closeError>>

\* line 177: BEGIN TRANSACTION answers. A connection holds one transaction:
\* the store refuses BEGIN inside one. The statement is outside the try block
Begin ==
    /\ pc = "begin"
    /\ \/ /\ txn = "none"
          /\ txn' = CurrentTable
          /\ txnRows' = <<>>
          /\ rowIdx' = 1
          /\ pc' = "row"
          /\ tblState' = [tblState EXCEPT ![CurrentTable] = "open"]
          /\ UNCHANGED <<db, error, exitCode>>
       \/ /\ Fail(StoreError("BEGIN", CurrentTable, 0, IF txn = "none" THEN "io" ELSE "nested"))
          /\ tblState' = [tblState EXCEPT ![CurrentTable] = "begin_failed"]
          /\ UNCHANGED <<txn, txnRows, rowIdx>>
    /\ UNCHANGED <<fkOn, tables, ddlIdx, csv, allCsv, committed,
                   tblIdx, caught, closeError>>

\* lines 180-184: the INSERT of row rowIdx answers; after the last row COMMIT
\* is sent, after a rejected row the catch clause is entered
InsertRow ==
    /\ pc = "row"
    /\ LET row == csv[CurrentTable].rows[rowIdx]
       IN  \/ /\ ConstraintsHold(CurrentTable, row)
              /\ txn = CurrentTable
              /\ txnRows' = Append(txnRows, row)
              /\ rowIdx' = rowIdx + 1
              /\ pc' = IF rowIdx = Len(csv[CurrentTable].rows) THEN "commit" ELSE "row"
              /\ UNCHANGED caught
           \/ /\ ~ConstraintsHold(CurrentTable, row)
              /\ caught' = StoreError("INSERT", CurrentTable, rowIdx,
                                      Violation(CurrentTable, row))
              /\ pc' = CatchTarget
              /\ UNCHANGED <<txnRows, rowIdx>>
           \/ /\ caught' = StoreError("INSERT", CurrentTable, rowIdx, "io")
              /\ pc' = CatchTarget
              /\ UNCHANGED <<txnRows, rowIdx>>
    /\ UNCHANGED <<db, fkOn, tables, ddlIdx, csv, allCsv, committed, txn,
                   tblIdx, tblState, error, closeError, exitCode>>

\* line 184: COMMIT answers
Commit ==
    /\ pc = "commit"
    /\ \/ /\ txn = CurrentTable
          /\ committed' = [committed EXCEPT ![CurrentTable] = @ \o txnRows]
          /\ txn' = "none"
          /\ txnRows' = <<>>
          /\ tblState' = [tblState EXCEPT ![CurrentTable] = "committed"]
          /\ NextTable
          /\ UNCHANGED caught
       \/ /\ caught' = StoreError("COMMIT", CurrentTable, 0, "io")
          /\ pc' = "rollback"
          /\ UNCHANGED <<committed, txn, txnRows, tblState, tblIdx, db, error, exitCode>>
    /\ UNCHANGED <<fkOn, tables, ddlIdx, csv, allCsv, rowIdx, closeError>>

\* lines 185-188: ROLLBACK answers. When it succeeds the caught error is
\* thrown again; when it fails its own error leaves the catch clause and the
\* transaction stays open until the connection is closed
Rollback ==
    /\ pc = "rollback"
    /\ \/ /\ txn' = "none"
          /\ txnRows' = <<>>
          /\ tblState' = [tblState EXCEPT ![CurrentTable] = "rolled_back"]
          /\ Fail(caught)
       \/ /\ tblState' = [tblState EXCEPT ![CurrentTable] = "rollback_failed"]
          /\ Fail(StoreError("ROLLBACK", CurrentTable, 0, "io"))
          /\ UNCHANGED <<txn, txnRows>>
    /\ UNCHANGED <<fkOn, tables, ddlIdx, csv, allCsv, committed,
                   tblIdx, rowIdx, caught, closeError>>

\* lines 290-297: the close answers; closing rolls back an open transaction;
\* a failure of the close is logged and nothing else
CloseDatabase ==
    /\ pc = "closing"
    /\ \/ /\ db' = "closed"
          /\ txn' = "none"
          /\ txnRows' = <<>>
          /\ UNCHANGED closeError
       \/ /\ db' = "close_failed"
          /\ closeError' = StoreError("CLOSE", "none", 0, "io")
          /\ UNCHANGED <<txn, txnRows>>
    /\ pc' = "done"
    /\ UNCHANGED <<fkOn, tables, ddlIdx, csv, allCsv, committed,
                   tblIdx, rowIdx, tblState, caught, error, exitCode>>

-----------------------------------------------------------------------------
(* One loadCsv call on one file *)

\* the raw values a field of the file may hold
ParseTexts ==
    {<<"1", "2">>, <<"1", "2", "a", "b", "c">>, <<>>, <<"a", "b", "c">>,
     <<"1", "2", ".", "5">>, <<" ", "7">>}

ParseInit ==
    /\ pFile \in Tables
    /\ \E n \in 0 .. MaxParseRows : pInput \in [1 .. n -> [Columns(pFile) -> ParseTexts]]
    /\ pRows = <<>>
    /\ pStatus = "reading"
    /\ pError = NoError

\* stream.on('data'): the next row of the file
ParseData ==
    /\ pStatus = "reading"
    /\ Len(pRows) < Len(pInput)
    /\ LET r == ConvertRow(pFile, pInput[Len(pRows) + 1])
       IN  IF r.ok
           THEN /\ pRows' = Append(pRows, r.row)
                /\ UNCHANGED <<pStatus, pError>>
           ELSE /\ pStatus' = "rejected"
                /\ pError' = r.error
                /\ UNCHANGED pRows
    /\ UNCHANGED <<pFile, pInput>>

\* stream.on('end'): the promise resolves with the rows
ParseEnd ==
    /\ pStatus = "reading"
    /\ Len(pRows) = Len(pInput)
    /\ pStatus' = "resolved"
    /\ UNCHANGED <<pFile, pInput, pRows, pError>>

-----------------------------------------------------------------------------
(* main.js: the pipeline *)

\* the scripts in the order of the runScript calls of main
Scripts == <<"generate-data.js", "create-database.js", "run-queries.js">>

\* a line written to the console
Line(msg, script) == [msg |-> msg, script |-> script]

\* a child process that was not started
NotStarted == [status |-> "unstarted", code |-> 0, stdout |-> FALSE, stderr |-> FALSE]

MainInit ==
    /\ mainPc = "start"
    /\ scriptIdx = 1
    /\ child = [i \in 1 .. Len(Scripts) |-> NotStarted]
    /\ console = <<>>

\* line 18: main starts
MainStart ==
    /\ mainPc = "start"
    /\ console' = Append(console, Line("PIPELINE STARTING", "none"))
    /\ mainPc' = "run_script"
    /\ UNCHANGED <<scriptIdx, child>>

\* lines 6-9: runScript is called for the next script; it logs the script
\* and starts `node scriptName` through execAsync
runScript ==
    /\ mainPc = "run_script"
    /\ console' = Append(console, Line("Running", Scripts[scriptIdx]))
    /\ child' = [child EXCEPT ![scriptIdx].status = "running"]
    /\ mainPc' = "await_exec"
    /\ UNCHANGED scriptIdx

\* line 9: the child process ends, with exit code 0 or with the exit code 1
\* its script sets on a failure, having written or not to its two outputs
ChildExit ==
    /\ mainPc = "await_exec"
    /\ child[scriptIdx].status = "running"
    /\ \E code \in {0, 1}, out \in BOOLEAN, err \in BOOLEAN :
          child' = [child EXCEPT ![scriptIdx] =
                        [status |-> "ended", code |-> code, stdout |-> out, stderr |-> err]]
    /\ UNCHANGED <<mainPc, scriptIdx, console>>

\* what runScript writes once execAsync has settled: the outputs of a child
\* that ended with code 0 (lines 10-11), the error of one that did not
\* (lines 12-14, the catch clause, which throws nothing)
Logged(script, c) ==
    IF c.code = 0
    THEN (IF c.stdout THEN <<Line("stdout", script)>> ELSE <<>>)
         \o (IF c.stderr THEN <<Line("stderr", script)>> ELSE <<>>)
    ELSE <<Line("Error running", script)>>

\* lines 9-15 and 21-23: execAsync settles when the child has ended,
\* runScript returns and main goes on to the next runScript call or, after
\* the third one, to its last statement
ExecSettled ==
    /\ mainPc = "await_exec"
    /\ child[scriptIdx].status = "ended"
    /\ console' = console \o Logged(Scripts[scriptIdx], child[scriptIdx])
    /\ IF scriptIdx = Len(Scripts)
       THEN mainPc' = "report" /\ UNCHANGED scriptIdx
       ELSE mainPc' = "run_script" /\ scriptIdx' = scriptIdx + 1
    /\ UNCHANGED child

\* line 25: the last statement of main
Report ==
    /\ mainPc = "report"
    /\ console' = Append(console, Line("PIPELINE COMPLETED SUCCESSFULLY", "none"))
    /\ mainPc' = "done"
    /\ UNCHANGED <<scriptIdx, child>>

-----------------------------------------------------------------------------
(* Specifications *)

\* what a step of one program leaves alone
LoaderAtRest == UNCHANGED <<loadVars, parseVars, mainVars>>

InitGen == GenInit /\ LoadIdle /\ ParseIdle /\ MainIdle

NextGen ==
    \/ generateCustomers /\ LoaderAtRest
    \/ generateProducts /\ LoaderAtRest
    \/ generateOrders /\ LoaderAtRest
    \/ generateOrderItems /\ LoaderAtRest
    \/ FirstPassStep /\ LoaderAtRest
    \/ FirstPassEnd /\ LoaderAtRest
    \/ TopUpStep /\ LoaderAtRest
    \/ FinalizeTotals /\ LoaderAtRest
    \/ generatePayments /\ LoaderAtRest

\* a generation run of generate-data.js
SpecGen == InitGen /\ [][NextGen]_vars

\* the run is one synchronous computation: it goes on until it returns or throws
FairSpecGen == SpecGen /\ WF_vars(NextGen)

\* what a step of the loader leaves alone
GeneratorAtRest == UNCHANGED <<genVars, parseVars, mainVars>>

Next ==
    \/ Prepare /\ GeneratorAtRest
    \/ OpenDatabase /\ GeneratorAtRest
    \/ EnableForeignKeys /\ GeneratorAtRest
    \/ CreateTables /\ GeneratorAtRest
    \/ \E t \in Tables : CsvSettle(t) /\ GeneratorAtRest
    \/ \E t \in Tables : CsvReadError(t) /\ GeneratorAtRest
    \/ AwaitCsv /\ GeneratorAtRest
    \/ InsertDataStart /\ GeneratorAtRest
    \/ Begin /\ GeneratorAtRest
    \/ InsertRow /\ GeneratorAtRest
    \/ Commit /\ GeneratorAtRest
    \/ Rollback /\ GeneratorAtRest
    \/ CloseDatabase /\ GeneratorAtRest

Init == LoadInit /\ GenIdle /\ ParseIdle /\ MainIdle

\* a run of create-database.js
Spec == Init /\ [][Next]_vars

\* what a step of loadCsv taken alone leaves alone
OthersAtRest == UNCHANGED <<genVars, loadVars, mainVars>>

InitParse == ParseInit /\ GenIdle /\ LoadIdle /\ MainIdle

NextParse ==
    \/ ParseData /\ OthersAtRest
    \/ ParseEnd /\ OthersAtRest

\* one loadCsv call on a file of arbitrary raw text
SpecParse == InitParse /\ [][NextParse]_vars

\* what a step of main.js leaves alone: the phases run in child processes
ScriptsAtRest == UNCHANGED <<genVars, loadVars, parseVars>>

InitMain == MainInit /\ GenIdle /\ LoadIdle /\ ParseIdle

NextMain ==
    \/ MainStart /\ ScriptsAtRest
    \/ runScript /\ ScriptsAtRest
    \/ ChildExit /\ ScriptsAtRest
    \/ ExecSettled /\ ScriptsAtRest
    \/ Report /\ ScriptsAtRest

\* a run of main.js
SpecMain == InitMain /\ [][NextMain]_vars

-----------------------------------------------------------------------------
(* Properties of the generator *)

OrderIds == {orders[i].order_id : i \in 1 .. Len(orders)}
ProductIds == {products[i].product_id : i \in 1 .. Len(products)}

\* generateOrderItems has returned
ItemsReturned == genPc \in {"payments", "done"}

\* cents of quantity x unit_price over the items of order `oid`
RECURSIVE SumItems(_, _)
SumItems(items, oid) ==
    IF items = <<>> THEN 0
    ELSE (IF Head(items).order_id = oid
          THEN Head(items).quantity * (Head(items).unit_price.units * 100
                                       + Head(items).unit_price.frac)
          ELSE 0) + SumItems(Tail(items), oid)

\* C2: after a complete run with customerCount >= 1 and a non-empty product
\* list, every order's customer_id is in 1..customerCount, every item's and
\* every payment's order_id is the id of a generated order and every item's
\* product_id is the id of a generated product.
C2_ReferentialValidity ==
    (genPc = "done" /\ customerCount >= 1 /\ products # <<>>) =>
        /\ \A i \in 1 .. Len(orders) : orders[i].customer_id \in 1 .. customerCount
        /\ \A k \in 1 .. Len(orderItems) :
              /\ orderItems[k].order_id \in OrderIds
              /\ orderItems[k].product_id \in ProductIds
        /\ \A k \in 1 .. Len(payments) : payments[k].order_id \in OrderIds

C2_Witness ==
    /\ genPc = "done"
    /\ customerCount >= 2
    /\ Len(orders) >= 2
    /\ Len(orderItems) > Len(orders)
    /\ Len(payments) = Len(orders)
    /\ \E i, j \in 1 .. Len(orders) : orders[i].customer_id # orders[j].customer_id

\* C3: while items are being assigned the running total of every order is
\* the sum of quantity x unit_price over the items assigned to it so far, and
\* when generateOrderItems has returned total_amount is the two-decimal text
\* of that sum, in whole cents.
C3_TotalConsistency ==
    /\ genPc \in {"first_pass", "top_up"} =>
          \A i \in 1 .. Len(orders) :
              orders[i].total_amount = Num(SumItems(orderItems, orders[i].order_id))
    /\ ItemsReturned =>
          \A i \in 1 .. Len(orders) :
              /\ orders[i].total_amount.type = "string"
              /\ orders[i].total_amount.frac \in 0 .. 99
              /\ orders[i].total_amount.units * 100 + orders[i].total_amount.frac
                    = SumItems(orderItems, orders[i].order_id)

C3_Witness ==
    /\ genPc = "done"
    /\ Len(orders) >= 2
    /\ \E k \in 1 .. Len(orderItems) :
          /\ k > Len(orders)
          /\ orderItems[k].order_id = 2
          /\ orderItems[k].quantity > 1
          /\ orderItems[k].product_id # orderItems[2].product_id

\* C4: when generateOrderItems has returned, every order is referenced by at
\* least one order item, also when fewer items than orders were requested.
C4_NoEmptyOrders ==
    (ItemsReturned /\ products # <<>>) =>
        \A i \in 1 .. Len(orders) :
            \E k \in 1 .. Len(orderItems) : orderItems[k].order_id = orders[i].order_id

C4_Witness ==
    /\ ItemsReturned
    /\ Len(orders) >= 2
    /\ orderItemCount < Len(orders)
    /\ orderItemCount >= 1

\* C8: a generation run in which a requested count is <= 0 raises no error,
\* and each of customers, products and orders whose count is <= 0 comes out
\* as an empty sequence.
C8_NonPositiveCountsNeverFail ==
    (customerCount <= 0 \/ productCount <= 0 \/ orderCount <= 0 \/ orderItemCount <= 0) =>
        /\ genPc # "failed"
        /\ genPc = "done" =>
              /\ customerCount <= 0 => customers = <<>>
              /\ productCount <= 0 => products = <<>>
              /\ orderCount <= 0 => orders = <<>>

\* the shape of the list generateOrderItems returns
ExactItems ==
    /\ Len(orderItems) = Max(orderItemCount, Len(orders))
    /\ \A k \in 1 .. Len(orderItems) : orderItems[k].order_item_id = k
    /\ \A k \in 1 .. Len(orders) : orderItems[k].order_id = orders[k].order_id

C9_Covered ==
    \/ orders # <<>> /\ products # <<>>
    \/ orders = <<>> /\ orderItemCount <= 0

-----------------------------------------------------------------------------
(* Properties of the loader *)

\* the script has ended: the process crashed, or main returned and no
\* stream is left
ScriptEnded ==
    \/ pc = "crashed"
    \/ pc = "done" /\ \A t \in Tables : csv[t].status # "reading"

\* insertData is not running
OutsideInsertData == pc \notin {"begin", "row", "commit", "rollback"}

\* C1: when the insert of a row of table t has failed and insertData has
\* ended, no row of t is committed (and none is visible once ROLLBACK has
\* succeeded), every table committed earlier in the run holds all the rows
\* loaded for it, and the failure has reached main: an error is reported, the
\* exit code is 1 and no later table is touched.
C1_PerTableAtomicity ==
    (caught.stmt = "INSERT" /\ OutsideInsertData) =>
        /\ committed[caught.table] = <<>>
        /\ tblState[caught.table] = "rolled_back" => Visible(caught.table) = <<>>
        /\ tblState[caught.table] \in {"rolled_back", "rollback_failed"}
        /\ \A u \in Tables :
              /\ tblState[u] = "committed" => committed[u] = csv[u].rows
              /\ tblState[u] \in {"committed", "skipped", "pending"} \/ u = caught.table
        /\ error # NoError
        /\ exitCode = 1
        /\ pc \in {"closing", "done", "crashed"}

C1_Witness ==
    /\ caught.stmt = "INSERT"
    /\ caught.table = "orders"
    /\ caught.row = 2
    /\ caught.cause = "unique"
    /\ tblState["orders"] = "rolled_back"
    /\ Len(committed["customers"]) = 2
    /\ tblState["products"] = "committed"
    /\ pc = "done"

\* C5: when the script has ended after the database was opened, the close of
\* the connection was attempted, and a failed close is logged apart from the
\* reported error.
C5_CleanupAlwaysAttempted ==
    /\ (ScriptEnded /\ db # "none") => db \in {"closing", "closed", "close_failed"}
    /\ closeError # NoError => (db = "close_failed" /\ error.stmt # "CLOSE")

\* C6: a table exists or a row is written only on a connection whose
\* foreign-key enforcement is in effect.
C6_NoWriteWithoutForeignKeys ==
    (tables # {} \/ \E t \in Tables : Visible(t) # <<>>) => fkOn

\* the load order the specification fixes
C7_Order == <<"customers", "products", "orders", "order_items", "payments">>

\* insertData has been entered for table t
C7_Entered(t) == tblState[t] # "pending" \/ (~OutsideInsertData /\ CurrentTable = t)

\* C7: insertData is entered for a table only after every table before it in
\* the order customers, products, orders, order_items, payments has committed
\* or was skipped; BEGIN is never sent while a transaction is open; the
\* statements of an insert loop run inside the transaction of their own
\* table; and no statement of insertData is sent before all five CSV parses
\* have resolved.
C7_StrictLoadOrder ==
    /\ \A i, j \in 1 .. Len(C7_Order) :
          (i < j /\ C7_Entered(C7_Order[j])) =>
              tblState[C7_Order[i]] \in {"committed", "skipped"}
    /\ pc = "begin" => txn = "none"
    /\ pc \in {"row", "commit", "rollback"} => txn = CurrentTable
    /\ txn # "none" => \A u \in Tables \ {txn} : tblState[u] \in {"committed", "skipped", "pending"}
    /\ (pc = "insert" \/ ~OutsideInsertData) => \A t \in Tables : csv[t].status = "resolved"

C7_Witness ==
    /\ pc = "row"
    /\ CurrentTable = "payments"
    /\ txn = "payments"
    /\ tblState["customers"] = "committed"
    /\ tblState["products"] = "skipped"
    /\ tblState["orders"] = "committed"
    /\ tblState["order_items"] = "skipped"

\* C11: when the store has rejected a row during insertData (its key
\* collided or a reference of it is missing) and main has returned, the error
\* main reported is that rejection and not a later error of ROLLBACK, and the
\* error object names the table being loaded and the row that was rejected.
C11_InsertFailuresCarryContext ==
    (pc = "done" /\ caught.stmt = "INSERT" /\ caught.cause \in {"unique", "foreign_key"}) =>
        /\ error = caught
        /\ "table" \in DOMAIN ErrorObject(error)
        /\ ErrorObject(error).table = caught.table
        /\ "row" \in DOMAIN ErrorObject(error)
        /\ ErrorObject(error).row = caught.row

\* C12: BEGIN TRANSACTION is sent, and a row is in a table, only when all
\* five loadCsv calls have resolved; once one of the five has rejected, in
\* whatever order the five settle, no insertData is entered and no table
\* holds a row, and when the script has ended the five tables exist, they
\* are empty and the exit code is 1.
C12_NoRowBeforeAllParsed ==
    /\ (~OutsideInsertData \/ \E t \in Tables : Visible(t) # <<>>) =>
            \A t \in Tables : csv[t].status = "resolved"
    /\ (\E t \in Tables : csv[t].status = "rejected") =>
            /\ OutsideInsertData /\ pc # "insert"
            /\ \A t \in Tables : Visible(t) = <<>> /\ tblState[t] = "pending"
            /\ ScriptEnded => (tables = Tables /\ exitCode = 1)

C12_Witness ==
    /\ pc = "done"
    /\ csv["orders"].status = "rejected"
    /\ csv["customers"].status = "resolved"
    /\ Len(csv["customers"].rows) = 2
    /\ csv["payments"].status = "resolved"
    /\ allCsv.state = "rejected"
    /\ error.stmt = "loadCsv"
    /\ db = "closed"
    /\ tables = Tables
    /\ exitCode = 1

-----------------------------------------------------------------------------
(* Properties of loadCsv *)

\* the text of an integer: an optional sign and digits, nothing else
IsIntegerText(s) ==
    LET u == Unsigned(Trim(s))
    IN  u # <<>> /\ \A i \in 1 .. Len(u) : u[i] \in Digits

\* the text of a decimal number: an optional sign, digits and at most one point
IsDecimalText(s) ==
    LET u == Unsigned(Trim(s))
    IN  /\ \A i \in 1 .. Len(u) : u[i] \in Digits \cup {"."}
        /\ Cardinality({i \in 1 .. Len(u) : u[i] = "."}) <= 1
        /\ \E i \in 1 .. Len(u) : u[i] \in Digits

\* every numeric field of the raw row holds the text of a number
WellFormedRow(t, rawRow) ==
    \A i \in 1 .. Len(Converters(t)) :
        IF Converters(t)[i][2] = "int"
        THEN IsIntegerText(rawRow[Converters(t)[i][1]])
        ELSE IsDecimalText(rawRow[Converters(t)[i][1]])

\* C10: a row with a numeric field whose raw text is not the text of a number
\* never becomes a record; loadCsv then rejects, with an error that names the
\* file, the field and the raw value, and it resolves only when every row of
\* the file is well formed.
C10_ParserFailsFast ==
    /\ \A k \in 1 .. Len(pRows) : WellFormedRow(pFile, pInput[k])
    /\ pStatus = "resolved" =>
          \A k \in 1 .. Len(pInput) : WellFormedRow(pFile, pInput[k])
    /\ pStatus = "rejected" =>
          /\ pError.file = pFile
          /\ \E col \in Columns(pFile) :
                /\ pError.field = col
                /\ pError.raw = Trim(pInput[Len(pRows) + 1][col])

-----------------------------------------------------------------------------
(* Properties of main.js *)

\* the child process of script i has ended without error
EndedWithoutError(i) == child[i].status = "ended" /\ child[i].code = 0

\* the success message is on the console
SuccessReported ==
    \E k \in 1 .. Len(console) : console[k].msg = "PIPELINE COMPLETED SUCCESSFULLY"

\* the phases run one after another in the order generate-data.js,
\* create-database.js, run-queries.js, each started only after the process of
\* the one before has ended
C13_Sequenced ==
    /\ Scripts = <<"generate-data.js", "create-database.js", "run-queries.js">>
    /\ \A i, j \in 1 .. Len(Scripts) :
          (i < j /\ child[j].status # "unstarted") => child[i].status = "ended"

\* C13: the three phases run strictly in the order generate-data.js,
\* create-database.js, run-queries.js, each starting only after the process
\* of the phase before has ended, and 'PIPELINE COMPLETED SUCCESSFULLY' is
\* printed only when all three phases have ended without error.
C13_PipelineSuccessReport ==
    /\ C13_Sequenced
    /\ SuccessReported => \A i \in 1 .. Len(Scripts) : EndedWithoutError(i)

=============================================================================
